---- MODULE Spec2Model ----
(***************************************************************************)
(* A model of the SysMLv2 value resolution engine of sysmlv2-api-server.py *)
(* and sysmlv2_api_helpers.py.                                             *)
(*                                                                         *)
(* JSON documents are tagged records: every value has a field k naming its *)
(* Python type after json(): "null" (None), "str", "num", "list", "dict".  *)
(* A dict carries a function f from its keys to JSON values.  A body that  *)
(* is not JSON at all has k = "invalid" (json() raises on it).             *)
(*                                                                         *)
(* Python functions are operators.  A function that may raise returns a    *)
(* record [exc, val, log]: exc says that an exception left the function,   *)
(* val is the returned value, log the sequence of network requests the     *)
(* call issued, in order.                                                  *)
(***************************************************************************)
EXTENDS Integers, Sequences, FiniteSets, TLC

VARIABLES
    store,   \* the model server: request key -> HTTP response
    pc,      \* "idle" before the operation is called, "done" after it ended
    op,      \* the operation that was called
    input,   \* the argument of the operation
    ret      \* what the operation produced: [exc, val, log]

vars == <<store, pc, op, input, ret>>

-----------------------------------------------------------------------------
(* Bounds of the exploration *)

MaxDepth == 3      \* nesting depth of list wrappers given to ensure_dict
MaxLen == 2        \* length of the lists given to ensure_dict
MaxRels == 2       \* relationships owned by the feature under resolution
MaxOpRels == 2     \* relationships owned by the operator expression
MaxDefs == 2       \* elements in the answer to the MetadataDefinition query
MaxUsages == 2     \* elements in the answer to the MetadataUsage query

-----------------------------------------------------------------------------
(* JSON values *)

None == [k |-> "null"]
Str(s) == [k |-> "str", s |-> s]
Num(n) == [k |-> "num", n |-> n]
List(items) == [k |-> "list", items |-> items]
Dict(f) == [k |-> "dict", f |-> f]
Invalid == [k |-> "invalid"]
EmptyDict == Dict(<<>>)
Stub(id) == Dict("@id" :> Str(id))

\* an element document, and a list of reference stubs
Elem(id, type, extra) ==
    Dict(("@id" :> Str(id)) @@ ("@type" :> Str(type)) @@ extra)
Stubs(ids) == List([i \in 1..Len(ids) |-> Stub(ids[i])])

IsNone(v) == v.k = "null"
IsStr(v) == v.k = "str"
IsList(v) == v.k = "list"
IsDict(v) == v.k = "dict"
StrIs(v, s) == v.k = "str" /\ v.s = s

\* Python truthiness: `not v` is ~Truthy(v)
Truthy(v) ==
    CASE v.k = "null" -> FALSE
      [] v.k = "str"  -> v.s # ""
      [] v.k = "num"  -> v.n # 0
      [] v.k = "list" -> v.items # <<>>
      [] v.k = "dict" -> DOMAIN v.f # {}
      [] OTHER        -> TRUE

\* d.get(key, default) on a dict d
GetOr(d, key, default) == IF key \in DOMAIN d.f THEN d.f[key] ELSE default
\* d.get(key) on a dict d
Get(d, key) == GetOr(d, key, None)

\* results of functions
Ret(v, log) == [exc |-> FALSE, val |-> v, log |-> log]
Raise(log) == [exc |-> TRUE, val |-> None, log |-> log]
NoRet == [exc |-> FALSE, val |-> None, log |-> <<>>]

-----------------------------------------------------------------------------
(* ensure_dict: sysmlv2-api-server.py 253-307 *)

\* the while loop of ensure_dict, with its depth counter
RECURSIVE ensure_dict_loop(_, _)
ensure_dict_loop(obj, depth) ==
    IF IsList(obj)
    THEN IF obj.items = <<>>
         THEN None
         ELSE ensure_dict_loop(obj.items[1], depth + 1)
    ELSE IF IsDict(obj) THEN obj ELSE None

\* mutant: the loop is an `if`, one wrapper is removed and the rest returned
ensure_dict_once(obj) ==
    IF IsList(obj)
    THEN IF obj.items = <<>> THEN None
         ELSE IF IsList(obj.items[1]) \/ IsDict(obj.items[1])
              THEN obj.items[1] ELSE None
    ELSE IF IsDict(obj) THEN obj ELSE None

\* mutant: the final isinstance(obj, dict) test is dropped
RECURSIVE ensure_dict_nocheck(_)
ensure_dict_nocheck(obj) ==
    IF IsList(obj)
    THEN IF obj.items = <<>> THEN None ELSE ensure_dict_nocheck(obj.items[1])
    ELSE obj

\* mutant: unwrapping gives up below two wrappers
RECURSIVE ensure_dict_bounded_loop(_, _)
ensure_dict_bounded_loop(obj, depth) ==
    IF IsList(obj)
    THEN IF obj.items = <<>> \/ depth >= 2
         THEN None
         ELSE ensure_dict_bounded_loop(obj.items[1], depth + 1)
    ELSE IF IsDict(obj) THEN obj ELSE None

ensure_dict_bounded(obj) == ensure_dict_bounded_loop(obj, 0)

ensure_dict(obj) == ensure_dict_loop(obj, 0)

-----------------------------------------------------------------------------
(* Inputs of the normalizer: lists nested up to MaxDepth deep *)

DictA == Dict("a" :> Num(1))
Atoms == {None, Str("x"), Num(7), EmptyDict, DictA}
TailAtoms == {None, DictA}

SeqsUpTo(S, n) == UNION {[1..m -> S] : m \in 0..n}

RECURSIVE Nested(_)
Nested(d) ==
    IF d = 0
    THEN Atoms \cup {List(<<>>)}
    ELSE Atoms \cup {List(<<>>)}
         \cup {List(<<h>> \o t) : h \in Nested(d - 1),
                                  t \in SeqsUpTo(TailAtoms, MaxLen - 1)}

NormInputs == Nested(MaxDepth)

-----------------------------------------------------------------------------
(* The normalizer on its own *)

NormInit ==
    /\ store = <<>>
    /\ pc = "idle"
    /\ op = "ensure_dict"
    /\ input \in NormInputs
    /\ ret = NoRet

\* ensure_dict(input)
Normalize ==
    /\ pc = "idle"
    /\ ret' = Ret(ensure_dict(input), <<>>)
    /\ pc' = "done"
    /\ UNCHANGED <<store, op, input>>

\* the caller hands a result of ensure_dict to ensure_dict again
Renormalize ==
    /\ pc = "done"
    /\ input' = ret.val
    /\ pc' = "idle"
    /\ UNCHANGED <<store, op, ret>>

NormNext == Normalize \/ Renormalize

SpecNorm == NormInit /\ [][NormNext]_vars

-----------------------------------------------------------------------------
(* The model server and get_element_fromAPI: sysmlv2_api_helpers.py 274-289 *)

StatusOK == 200

\* session.get raised (no connection, timeout)
TransportError == [err |-> TRUE, status |-> 0, body |-> None]
Response(status, body) == [err |-> FALSE, status |-> status, body |-> body]
NotFound == Response(404, Dict("error" :> Str("not found")))

\* what the server answers to the request for `key`
Lookup(key) == IF key \in DOMAIN store THEN store[key] ELSE NotFound

Request(method, key) == [method |-> method, key |-> key]

\* lines 279-287: what the try block makes of the response r
element_of(r, log) ==
    IF r.err THEN Raise(log)
    ELSE IF r.status = StatusOK
         THEN IF r.body.k = "invalid" THEN Raise(log)   \* json() raises
              ELSE IF IsList(r.body)
                   THEN Ret(IF r.body.items # <<>>
                            THEN r.body.items[1] ELSE None, log)
                   ELSE IF IsDict(r.body)
                        THEN Ret(r.body, log)
                        ELSE Raise(log)   \* element.get on a scalar
         ELSE Ret(None, log)    \* warning printed, falls off the end

\* lines 276-287, the body of the try: the same result record, exc set when
\* an exception leaves the block
get_element_try(element_id) ==
    IF ~IsStr(element_id)
    THEN Raise(<<>>)                     \* str + non-str: TypeError, nothing sent
    ELSE element_of(Lookup(element_id.s), <<Request("GET", element_id.s)>>)

\* except Exception: the exception is printed and None is returned
Caught(t) == IF t.exc THEN Ret(None, t.log) ELSE t

\* a list body as it came, where the fetcher hands out its first item
whole_list(t, r) ==
    IF ~t.exc /\ ~r.err /\ r.status = StatusOK /\ IsList(r.body)
    THEN Ret(r.body, t.log) ELSE t

\* mutant: a list body is returned as it is
get_element_nounwrap(element_id) ==
    IF IsStr(element_id)
    THEN whole_list(Caught(get_element_try(element_id)), Lookup(element_id.s))
    ELSE Caught(get_element_try(element_id))

\* lines 275-289: except Exception prints, and the function returns None
get_element_fromAPI(element_id) == Caught(get_element_try(element_id))

-----------------------------------------------------------------------------
(* The fetcher on its own: one element, every kind of response *)

FetchBodies == Nested(1) \cup {Invalid}
FetchResponses ==
    {TransportError}
    \cup {Response(st, b) : st \in {StatusOK, 404, 500}, b \in FetchBodies}

FetchInit ==
    /\ \E r \in FetchResponses : store = ("e1" :> r)
    /\ pc = "idle"
    /\ op = "get_element_fromAPI"
    /\ input \in {Str("e1"), Str("e2"), None}
    /\ ret = NoRet

\* get_element_fromAPI(query_url, input)
Fetch ==
    /\ pc = "idle"
    /\ ret' = get_element_fromAPI(input)
    /\ pc' = "done"
    /\ UNCHANGED <<store, op, input>>

FetchNext == Fetch

SpecFetch == FetchInit /\ [][FetchNext]_vars

-----------------------------------------------------------------------------
(* Python expressions that may raise.  Exc stands for "an exception was    *)
(* raised while computing this value"; every operator below hands it on,   *)
(* so a chain a[k1][k2] is Exc as soon as one step raises.                 *)

Exc == [k |-> "exc"]
IsExc(v) == v.k = "exc"

\* v.get(key): AttributeError unless v is a dict
PyGet(v, key) == IF IsDict(v) THEN Get(v, key) ELSE Exc

\* v[key], key a string: KeyError on a dict without it, TypeError on a list,
\* a string, a number or None
PySub(v, key) == IF IsDict(v) /\ key \in DOMAIN v.f THEN v.f[key] ELSE Exc

\* v[0]: the first item of a list, the first character of a string;
\* IndexError when empty, KeyError on a dict (its keys are strings),
\* TypeError on a number or None.  The characters of a string are not
\* represented: its first character is the one-character string Str("c").
PyIndex0(v) ==
    IF IsList(v) /\ v.items # <<>> THEN v.items[1]
    ELSE IF IsStr(v) /\ v.s # "" THEN Str("c")
    ELSE Exc

RECURSIVE SetToSeq(_)
SetToSeq(S) ==
    IF S = {} THEN <<>>
    ELSE LET x == CHOOSE y \in S : TRUE IN <<x>> \o SetToSeq(S \ {x})

\* `for x in v`: the items of a list, the keys of a dict, the characters of a
\* string (one stands for all of them); TypeError on a number or None
PyIter(v) ==
    IF IsList(v) THEN List(v.items)
    ELSE IF IsDict(v) THEN List([i \in 1..Cardinality(DOMAIN v.f) |->
                                    Str(SetToSeq(DOMAIN v.f)[i])])
    ELSE IF IsStr(v) THEN List(IF v.s = "" THEN <<>> ELSE <<Str("c")>>)
    ELSE Exc

\* a function result as the value of an expression
AsValue(r) == [val |-> IF r.exc THEN Exc ELSE r.val, log |-> r.log]

\* get_element_fromAPI on a value that may itself have raised
FetchV(idv) ==
    IF IsExc(idv) THEN [val |-> Exc, log |-> <<>>]
    ELSE AsValue(get_element_fromAPI(idv))

\* str.startswith("Literal") on the type tags of the model
LiteralTypes == {"Literal", "LiteralInteger", "LiteralString", "LiteralBoolean"}
\* mutant: the type is compared with "Literal" instead of its prefix
StartsWithLiteral_exact(s) == s = "Literal"

StartsWithLiteral(s) == s \in LiteralTypes

-----------------------------------------------------------------------------
(* getValueFromOperatorExpressionUnit: sysmlv2_api_helpers.py 319-327 *)

\* line 326: the element paramFeatureValueRel points to is returned
opexpr_return(element, log) ==
    IF IsExc(element.val) THEN Raise(log \o element.log)
    ELSE Ret(element.val, log \o element.log)

\* line 326, paramFeatureValueRel fetched
opexpr_paramFeatureValueRel(paramFeatureValueRel, log) ==
    opexpr_return(
        FetchV(PySub(PySub(paramFeatureValueRel.val, "memberElement"), "@id")),
        log \o paramFeatureValueRel.log)

\* line 325, paramFeature fetched
opexpr_paramFeature(paramFeature, log) ==
    opexpr_paramFeatureValueRel(
        FetchV(PySub(PyIndex0(PySub(paramFeature.val, "ownedRelationship")), "@id")),
        log \o paramFeature.log)

\* lines 324-326: parameter feature, its first relationship, the element that
\* relationship points to
opexpr_operand(relationship, log) ==
    opexpr_paramFeature(
        FetchV(PySub(PySub(relationship, "memberElement"), "@id")), log)

RECURSIVE opexpr_loop(_, _)
\* lines 323-327: the relationship r1 fetched for the head of the loop
opexpr_relationship(r1, rest, log) ==
    IF IsExc(PyGet(r1.val, "@type")) THEN Raise(log \o r1.log)
    ELSE IF /\ StrIs(PyGet(r1.val, "@type"), "ParameterMembership")
            /\ StrIs(PyGet(r1.val, "memberName"), "x")
         THEN opexpr_operand(r1.val, log \o r1.log)
         ELSE opexpr_loop(rest, log \o r1.log)

\* lines 321-327: the for loop over the relationships still to visit
opexpr_loop(rels, log) ==
    IF rels = <<>> THEN Ret(None, log)
    ELSE opexpr_relationship(FetchV(PySub(Head(rels), "@id")), Tail(rels), log)

\* line 321: opExp['ownedRelationship'] iterated
opexpr_iter(it) ==
    IF IsExc(it) THEN Raise(<<>>) ELSE opexpr_loop(it.items, <<>>)

\* the operator expression in the place of the operand found
self_for_operand(r, opExp) ==
    IF r.exc \/ IsNone(r.val) THEN r ELSE Ret(opExp, r.log)

\* mutant: returns the operator expression it was given instead of the operand
opexpr_returns_self(opExp) ==
    self_for_operand(opexpr_iter(PyIter(PyGet(opExp, "ownedRelationship"))), opExp)

getValueFromOperatorExpressionUnit(opExp) ==
    opexpr_iter(PyIter(PyGet(opExp, "ownedRelationship")))

-----------------------------------------------------------------------------
(* getFeatureValueFromFeature: sysmlv2-api-server.py 310-392 *)

ValuePair(value_id, value) == Dict(("value_id" :> value_id) @@ ("value" :> value))

\* `continue`: the relationship gave no value, the loop goes on
Continue == [k |-> "continue"]
IsContinue(v) == v.k = "continue"

\* lines 378-382: the pair made of what the decoder returned
fv_operand(value, log) ==
    IF value.exc \/ ~IsDict(value.val)      \* value.get on None
    THEN Raise(log \o value.log)
    ELSE Ret(ValuePair(Get(value.val, "@id"), Get(value.val, "value")),
             log \o value.log)

\* lines 367-382: dispatch on the @type of the feature value element
fv_dispatch(featureValue, log) ==
    LET fv_type == Get(featureValue, "@type")
    IN  IF ~Truthy(fv_type) THEN Ret(Continue, log)
        ELSE IF ~IsStr(fv_type) THEN Raise(log)       \* no startswith
        ELSE IF StartsWithLiteral(fv_type.s)
             THEN Ret(ValuePair(Get(featureValue, "@id"),
                                Get(featureValue, "value")), log)
        ELSE IF fv_type.s = "OperatorExpression"
             THEN fv_operand(getValueFromOperatorExpressionUnit(featureValue), log)
        ELSE Ret(Continue, log)

\* lines 358-382: the value element r2 fetched
fv_element(r2, log) ==
    IF IsExc(r2.val) THEN Raise(log \o r2.log)
    ELSE IF ~Truthy(ensure_dict(r2.val)) THEN Ret(Continue, log \o r2.log)
    ELSE fv_dispatch(ensure_dict(r2.val), log \o r2.log)

\* lines 348-382: the first related element, normalized
fv_first_related(first_related, log) ==
    IF ~Truthy(first_related) THEN Ret(Continue, log)
    ELSE IF ~Truthy(Get(first_related, "@id")) THEN Ret(Continue, log)
    ELSE fv_element(FetchV(Get(first_related, "@id")), log)

\* lines 341-382: a relationship of type FeatureValue
fv_relationship(relationship, log) ==
    LET related_elements == GetOr(relationship, "ownedRelatedElement", List(<<>>))
    IN  IF ~Truthy(related_elements) THEN Ret(Continue, log)
        ELSE IF IsExc(PyIndex0(related_elements)) THEN Raise(log)
        ELSE fv_first_related(ensure_dict(PyIndex0(related_elements)), log)

RECURSIVE feature_loop(_, _)
\* mutant: the loop goes on after a value was found as well
feature_next_all(r, rest) ==
    IF ~r.exc THEN feature_loop(rest, r.log) ELSE r

\* lines 341-385: what the relationship gave; the loop goes on after `continue`
feature_next(r, rest) ==
    IF ~r.exc /\ IsContinue(r.val) THEN feature_loop(rest, r.log) ELSE r

\* lines 333-385: the relationship r1 fetched for the head of the loop
feature_relationship(r1, rest, log) ==
    IF IsExc(r1.val) THEN Raise(log \o r1.log)
    ELSE IF ~Truthy(ensure_dict(r1.val)) THEN feature_loop(rest, log \o r1.log)
    ELSE IF ~StrIs(Get(ensure_dict(r1.val), "@type"), "FeatureValue")
         THEN feature_loop(rest, log \o r1.log)
    ELSE feature_next(fv_relationship(ensure_dict(r1.val), log \o r1.log), rest)

\* lines 322-385: the relationship stub at the head of the loop, normalized
feature_stub(relationship_id, rest, log) ==
    IF ~Truthy(relationship_id) THEN feature_loop(rest, log)
    ELSE IF ~Truthy(Get(relationship_id, "@id")) THEN feature_loop(rest, log)
    ELSE feature_relationship(FetchV(Get(relationship_id, "@id")), rest, log)

\* lines 320-385: the for loop over the relationship stubs still to visit
feature_loop(rels, log) ==
    IF rels = <<>> THEN Ret(None, log)
    ELSE feature_stub(ensure_dict(Head(rels)), Tail(rels), log)

\* lines 319-320: owned_rel iterated
feature_rels(it, log) ==
    IF IsExc(it) THEN Raise(log) ELSE feature_loop(it.items, log)

\* lines 314-385: the feature r0 fetched
feature_walk(r0) ==
    IF IsExc(r0.val) THEN Raise(r0.log)
    ELSE IF ~Truthy(ensure_dict(r0.val)) THEN Ret(None, r0.log)
    ELSE feature_rels(PyIter(GetOr(ensure_dict(r0.val), "ownedRelationship",
                                   List(<<>>))), r0.log)

\* lines 312-385, the body of the try
getFeatureValue_try(feature_id) == feature_walk(FetchV(feature_id))

\* mutant: no try/except around the walk
getFeatureValue_notry(feature_id) == getFeatureValue_try(feature_id)

\* lines 311-392: except Exception prints the traceback and returns None
getFeatureValueFromFeature(feature_id) == Caught(getFeatureValue_try(feature_id))

-----------------------------------------------------------------------------
(* get_metadata_ids_by_name: sysmlv2_api_helpers.py 64-114 *)

\* the keys under which the server holds its answers to the two queries
\* POSTed to query-results
MetaDefQuery == "query:MetadataDefinition"
MetaUsageQuery == "query:MetadataUsage"

\* a short name as a key of a Python dict; None (no domain_name in the
\* request) is the key "None" here
KeyOf(name) == IF IsStr(name) THEN name.s ELSE "None"

\* lines 91-94: next(item['@id'] for item in items if
\* item.get('declaredShortName') == shortName), default None
RECURSIVE first_match(_, _)
first_match(items, shortName) ==
    IF items = <<>> THEN None
    ELSE IF ~IsDict(Head(items)) THEN Exc
    ELSE IF Get(Head(items), "declaredShortName") = shortName
         THEN PySub(Head(items), "@id")
         ELSE first_match(Tail(items), shortName)

\* mutant: a later element of the same short name replaces an earlier one
RECURSIVE last_match(_, _)
last_match(items, shortName) ==
    IF items = <<>> THEN None
    ELSE IF ~IsDict(Head(items)) THEN Exc
    ELSE LET rest == last_match(Tail(items), shortName)
         IN  IF Get(Head(items), "declaredShortName") = shortName /\ IsNone(rest)
             THEN PySub(Head(items), "@id")
             ELSE rest

\* the generator expression of lines 91-94
matched_id(items, shortName) == first_match(items, shortName)

\* lines 82-109, the body of the try; names: the sequence metadata_shortnames
metadata_ids_try(names) ==
    LET r == Lookup(MetaDefQuery)
        log == <<Request("POST", MetaDefQuery)>>
    IN  IF r.err THEN Raise(log)
        ELSE IF r.status = StatusOK
             THEN IF r.body.k = "invalid" THEN Raise(log)
                  ELSE IF IsList(r.body)
                       THEN IF \E i \in 1..Len(names) :
                                  IsExc(matched_id(r.body.items, names[i]))
                            THEN Raise(log)
                            ELSE Ret(Dict([key \in {KeyOf(names[i]) : i \in 1..Len(names)} |->
                                      LET i == CHOOSE i \in 1..Len(names) : KeyOf(names[i]) = key
                                      IN  matched_id(r.body.items, names[i])]), log)
                       ELSE Ret(Dict(("error" :> Str("Unexpected response format"))
                                     @@ ("details" :> r.body)), log)
             ELSE Ret(Dict(("error" :> Str("Failed to query metadata"))
                           @@ ("details" :> Str("response text"))), log)

\* mutant: no try/except around the query
metadata_ids_notry(names) == metadata_ids_try(names)

\* lines 81-114: except Exception returns {"error": str(e)}
get_metadata_ids_by_name(names) ==
    LET t == metadata_ids_try(names)
    IN  IF t.exc THEN Ret(Dict("error" :> Str("exception")), t.log) ELSE t

-----------------------------------------------------------------------------
(* get_metadatausage_annotatedElement_ids: sysmlv2_api_helpers.py 120-181 *)

\* the values of a sequence that are truthy
RECURSIVE TruthyOnly(_)
TruthyOnly(q) ==
    IF q = <<>> THEN <<>>
    ELSE (IF Truthy(Head(q)) THEN <<Head(q)>> ELSE <<>>) \o TruthyOnly(Tail(q))

\* lines 166-179: the identities one matching usage adds to results[key]
annotated_ids(item) ==
    LET annotated_elements == GetOr(item, "annotatedElement", List(<<>>))
    IN  IF Truthy(annotated_elements)
        THEN IF IsList(annotated_elements)
             THEN TruthyOnly([i \in 1..Len(annotated_elements.items) |->
                                 Get(annotated_elements.items[i], "@id")])
             ELSE IF IsDict(annotated_elements)
                  THEN TruthyOnly(<<Get(annotated_elements, "@id")>>)
                  ELSE <<>>
        ELSE <<Get(item, "@id")>>

\* lines 152-179 for one element of the answer: what it adds under each key,
\* or Exc when item.get or the print of line 161 raises
usage_item(item, defs) ==
    IF ~IsDict(item) THEN Exc
    ELSE LET metadata == Get(item, "metadataDefinition")
             metadata_id == IF IsDict(metadata) THEN Get(metadata, "@id")
                            ELSE Str("Unknown")
             annotated_elements == GetOr(item, "annotatedElement", List(<<>>))
         IN  IF /\ DOMAIN defs.f # {}
                /\ IsList(annotated_elements)
                /\ \E i \in 1..Len(annotated_elements.items) :
                       ~IsDict(annotated_elements.items[i])
             THEN Exc
             ELSE Dict([key \in DOMAIN defs.f |->
                          List(IF metadata_id = defs.f[key]
                               THEN annotated_ids(item) ELSE <<>>)])

\* lines 149-179: results after the elements `items`, starting from `results`
RECURSIVE usage_loop(_, _, _)
usage_loop(items, defs, results) ==
    IF items = <<>> THEN results
    ELSE LET add == usage_item(Head(items), defs)
         IN  IF IsExc(add) THEN Exc
             ELSE usage_loop(Tail(items), defs,
                     Dict([key \in DOMAIN defs.f |->
                             List(results.f[key].items \o add.f[key].items)]))

\* mutant: a key enters the result only when a usage matches it
annotated_only_matched(metadefinition_dict) ==
    LET r == Lookup(MetaUsageQuery)
        log == <<Request("POST", MetaUsageQuery)>>
    IN  IF r.err \/ r.status # StatusOK \/ r.body.k = "invalid" THEN Raise(log)
        ELSE IF ~Truthy(r.body) \/ ~IsList(r.body) THEN Ret(EmptyDict, log)
        ELSE LET res == usage_loop(r.body.items, metadefinition_dict,
                           Dict([key \in DOMAIN metadefinition_dict.f |-> List(<<>>)]))
             IN  IF IsExc(res) THEN Raise(log)
                 ELSE Ret(Dict([key \in {x \in DOMAIN res.f : res.f[x].items # <<>>} |->
                                  res.f[key]]), log)

\* lines 139-181; no try: a failed connection, the ValueError of line 142
\* and every exception of the loop leave the function
get_metadatausage_annotatedElement_ids(metadefinition_dict) ==
    LET r == Lookup(MetaUsageQuery)
        log == <<Request("POST", MetaUsageQuery)>>
    IN  IF r.err THEN Raise(log)
        ELSE IF r.status # StatusOK THEN Raise(log)
        ELSE IF r.body.k = "invalid" THEN Raise(log)
        ELSE IF ~Truthy(r.body) \/ ~IsList(r.body) THEN Ret(EmptyDict, log)
        ELSE LET res == usage_loop(r.body.items, metadefinition_dict,
                           Dict([key \in DOMAIN metadefinition_dict.f |-> List(<<>>)]))
             IN  IF IsExc(res) THEN Raise(log) ELSE Ret(res, log)

-----------------------------------------------------------------------------
(* The metadata locator on its own: every kind of answer to the two queries *)

MetaDef(id, shortName) ==
    Dict(("@id" :> Str(id)) @@ ("@type" :> Str("MetadataDefinition"))
         @@ ("declaredShortName" :> Str(shortName)))

MetaUsage(id, extra) ==
    Dict(("@id" :> Str(id)) @@ ("@type" :> Str("MetadataUsage")) @@ extra)

DefItems ==
    { MetaDef("md1", "Domain1"),
      MetaDef("md1b", "Domain1"),
      MetaDef("md2", "Domain2"),
      Dict(("@type" :> Str("MetadataDefinition"))
           @@ ("declaredShortName" :> Str("Domain2"))),      \* no @id
      Str("junk") }

UsageItems ==
    { MetaUsage("mu1", ("metadataDefinition" :> Stub("md1"))
                       @@ ("annotatedElement" :> Stubs(<<"part1", "part2">>))),
      MetaUsage("mu2", ("metadataDefinition" :> Stub("md2"))
                       @@ ("annotatedElement" :> Stub("part2"))),
      MetaUsage("mu3", "metadataDefinition" :> Stub("md1")),
      MetaUsage("mu4", ("metadataDefinition" :> Stub("md1"))
                       @@ ("annotatedElement" :> List(<<Str("part1")>>))) }

QueryFailures ==
    { TransportError,
      Response(500, Dict("error" :> Str("server error"))),
      Response(StatusOK, Invalid),
      Response(StatusOK, Dict("error" :> Str("no such commit"))) }

DefResponses ==
    QueryFailures
    \cup {Response(StatusOK, List(q)) : q \in SeqsUpTo(DefItems, MaxDefs)}

UsageResponses ==
    QueryFailures
    \cup {Response(StatusOK, List(q)) : q \in SeqsUpTo(UsageItems, MaxUsages)}

ElementServed == Response(StatusOK, Elem("part1", "PartUsage", "name" :> Str("part1")))
ElementResponses ==
    { TransportError, Response(500, Dict("error" :> Str("server error"))),
      ElementServed }

ShortNameLists ==
    { <<>>, <<Str("Domain1")>>, <<Str("Unknown")>>, <<Str("Domain1"), Str("Unknown")>>,
      <<Str("Domain1"), Str("Domain2")>>, <<Str("Domain2"), Str("Unknown")>> }

MetaInit ==
    /\ \E d \in DefResponses, u \in UsageResponses, e \in ElementResponses :
          /\ (e = ElementServed \/ (d \in QueryFailures /\ u \in QueryFailures))
          /\ store = (MetaDefQuery :> d) @@ (MetaUsageQuery :> u) @@ ("part1" :> e)
    /\ pc = "idle"
    /\ op = "none"
    /\ input = None
    /\ ret = NoRet

\* get_metadata_ids_by_name(query_url, names)
MetaIds ==
    /\ pc = "idle"
    /\ \E names \in ShortNameLists :
          /\ input' = List(names)
          /\ ret' = get_metadata_ids_by_name(names)
    /\ op' = "get_metadata_ids_by_name"
    /\ pc' = "ids"
    /\ UNCHANGED store

\* get_metadatausage_annotatedElement_ids(query_url, the mapping just returned)
MetaAnnotated ==
    /\ pc = "ids"
    /\ input' = ret.val
    /\ ret' = get_metadatausage_annotatedElement_ids(ret.val)
    /\ op' = "get_metadatausage_annotatedElement_ids"
    /\ pc' = "done"
    /\ UNCHANGED store

\* get_element_fromAPI(query_url, "part1")
MetaFetch ==
    /\ pc = "idle"
    /\ input' = Str("part1")
    /\ ret' = get_element_fromAPI(Str("part1"))
    /\ op' = "get_element_fromAPI"
    /\ pc' = "done"
    /\ UNCHANGED store

MetaNext == MetaIds \/ MetaAnnotated \/ MetaFetch

SpecMeta == MetaInit /\ [][MetaNext]_vars

-----------------------------------------------------------------------------
(* get_elements_fromAPI: sysmlv2_api_helpers.py 259-271 *)

RECURSIVE get_elements_loop(_, _, _)
\* lines 263-270: the element r fetched for the head of the loop
get_elements_add(r, rest, elements, log) ==
    get_elements_loop(rest,
        IF r.exc THEN elements                               \* except: continue
        ELSE IF IsList(r.val) THEN elements \o r.val.items   \* extend
        ELSE elements \o <<r.val>>,                          \* append, None too
        log \o r.log)

\* the elements for the identities `ids` still to fetch, after `elements`
get_elements_loop(ids, elements, log) ==
    IF ids = <<>> THEN Ret(List(elements), log)
    ELSE get_elements_add(get_element_fromAPI(Head(ids)), Tail(ids), elements, log)

get_elements_fromAPI(element_ids) == get_elements_loop(element_ids, <<>>, <<>>)

-----------------------------------------------------------------------------
(* outputAttributesToCSV: sysmlv2-api-server.py 202-250 *)

\* what Flask sends: the CSV text with status 200, or jsonify(error) with 500
Reply(status, body) == [k |-> "reply", status |-> status, body |-> body]
CsvFailed == Reply(500, Dict("error" :> Str("Failed to generate csv")))

\* csv.DictWriter writes None as the empty string, a string as it is and
\* anything else through str()
CsvCell(v) ==
    CASE v.k = "null" -> ""
      [] v.k = "str"  -> v.s
      [] v.k = "num"  -> ToString(v.n)
      [] OTHER        -> "<repr>"

Fields == <<"@id", "type", "name", "value", "value_id", "owner">>

\* lines 215-222: owner stays {} without an owner stub; else it is whatever
\* get_element_fromAPI returned, the print of line 220 raising into the
\* except of line 221 when that is not a dict
owner_of(item) ==
    IF IsDict(Get(item, "owner"))
    THEN get_element_fromAPI(GetOr(Get(item, "owner"), "@id", Str("")))
    ELSE Ret(EmptyDict, <<>>)

\* lines 224-232: the row of one AttributeUsage, owner being a mapping
csv_row(item, owner, featureValue) ==
         [field \in {Fields[i] : i \in 1..Len(Fields)} |->
            CASE field = "@id"      -> CsvCell(GetOr(item, "@id", Str("")))
              [] field = "type"     -> CsvCell(GetOr(item, "@type", Str("")))
              [] field = "name"     -> CsvCell(GetOr(item, "name", Str("")))
              [] field = "value"    -> CsvCell(GetOr(featureValue, "value", Str("")))
              [] field = "value_id" -> CsvCell(GetOr(featureValue, "value_id", Str("")))
              [] field = "owner"    -> CsvCell(GetOr(owner, "declaredName", Str("")))]

RECURSIVE csv_loop(_, _, _)
\* lines 224-232: the row of item, its owner o and its value fv at hand
csv_item(item, o, fv, rest, rows, log) ==
    IF fv.exc \/ ~IsDict(o.val)                  \* owner.get raises, line 231
    THEN Raise(log \o o.log \o fv.log)
    ELSE csv_loop(rest,
                  Append(rows, csv_row(item, o.val,
                                       IF Truthy(fv.val) THEN fv.val ELSE EmptyDict)),
                  log \o o.log \o fv.log)

\* lines 207-232: one element, normalized
csv_element(item, rest, rows, log) ==
    IF ~Truthy(item) THEN csv_loop(rest, rows, log)
    ELSE IF ~StrIs(Get(item, "@type"), "AttributeUsage")
         THEN csv_loop(rest, rows, log)
    ELSE csv_item(item, owner_of(item),
                  getFeatureValueFromFeature(Get(item, "@id")), rest, rows, log)

\* lines 206-232: the for loop over the elements still to write
csv_loop(elements, rows, log) ==
    IF elements = <<>> THEN Ret(Reply(StatusOK, rows), log)
    ELSE csv_element(ensure_dict(Head(elements)), Tail(elements), rows, log)

\* lines 244-247: except Exception returns jsonify(error), 500
csv_caught(t) == IF t.exc THEN Ret(CsvFailed, t.log) ELSE t

\* lines 203-250
outputAttributesToCSV(elements) == csv_caught(csv_loop(elements, <<>>, <<>>))

-----------------------------------------------------------------------------
(* getDomainFeatures: sysmlv2-api-server.py 81-119 *)

\* lines 108-113: the identities in element.ownedFeature, Exc when the
\* element has no get or ownedFeature cannot be iterated
owned_feature_ids_of(element) ==
    IF ~IsDict(element) THEN Exc
    ELSE LET it == PyIter(GetOr(element, "ownedFeature", List(<<>>)))
         IN  IF IsExc(it) THEN Exc
             ELSE LET idOf(attr) ==
                          IF IsDict(attr) /\ "@id" \in DOMAIN attr.f
                          THEN <<attr.f["@id"]>>
                          ELSE IF IsStr(attr) THEN <<attr>> ELSE <<>>
                      RECURSIVE collect(_)
                      collect(q) == IF q = <<>> THEN <<>>
                                    ELSE idOf(Head(q)) \o collect(Tail(q))
                  IN  List(collect(it.items))

\* lines 105-113: the for loop over domainElements
RECURSIVE owned_feature_ids(_)
owned_feature_ids(elements) ==
    IF elements = <<>> THEN List(<<>>)
    ELSE LET here == owned_feature_ids_of(Head(elements))
             rest == owned_feature_ids(Tail(elements))
         IN  IF IsExc(here) \/ IsExc(rest) THEN Exc
             ELSE List(here.items \o rest.items)

\* line 119: what outputAttributesToCSV returned is returned
domain_reply(out, log) == Ret(out.val, log \o out.log)

\* lines 117-119: the features loaded are written as rows
domain_output(features, log) ==
    domain_reply(outputAttributesToCSV(features.val.items), log \o features.log)

\* lines 105-117: owned_feature_ids collected, or an exception of the loop
domain_features(feature_ids, log) ==
    IF IsExc(feature_ids) THEN Raise(log)
    ELSE domain_output(get_elements_fromAPI(feature_ids.items), log)

\* lines 102-113: domainElements loaded
domain_elements(domainElements, log) ==
    domain_features(owned_feature_ids(domainElements.val.items),
                    log \o domainElements.log)

\* lines 100-102: the annotated identities of the domain
domain_annotated(ann, domain_name, log) ==
    IF ann.exc THEN Raise(log \o ann.log)
    ELSE domain_elements(
             get_elements_fromAPI(
                 PyIter(GetOr(ann.val, KeyOf(domain_name), List(<<>>))).items),
             log \o ann.log)

\* lines 99-100: the definitions of the domain
domain_definitions(defs, domain_name) ==
    IF defs.exc THEN Raise(defs.log)
    ELSE domain_annotated(get_metadatausage_annotatedElement_ids(defs.val),
                          domain_name, defs.log)

\* lines 84-119, the handler without its decorator
getDomainFeatures_body(input_data) ==
    IF \/ ~Truthy(Get(input_data, "server_url"))
       \/ ~Truthy(Get(input_data, "project_id"))
       \/ ~Truthy(Get(input_data, "commit_id"))
    THEN Raise(<<>>)                                    \* ValueError, line 95
    ELSE domain_definitions(
             get_metadata_ids_by_name(<<Get(input_data, "domain_name")>>),
             Get(input_data, "domain_name"))

\* lines 30-39: an exception becomes jsonify(error), 500
handle_errors(t) ==
    IF t.exc THEN Ret(Reply(500, Dict("error" :> Str("exception"))), t.log) ELSE t

getDomainFeatures(input_data) == handle_errors(getDomainFeatures_body(input_data))

-----------------------------------------------------------------------------
(* The commit scope of a request: sysmlv2-api-server.py 136, 162-163 *)

\* f"{server_url}/projects/{project_id}/commits/{commit_id}": the three parts
\* of the URL; a missing part is formatted as the text "None"
QueryUrl(server_url, project_id, commit_id) ==
    [server |-> server_url, project |-> project_id, commit |-> commit_id]

\* the project and commit the model server holds
ServedServer == Str("http://server")
ServedProject == Str("p1")
ServedCommit == Str("c1")
Served == QueryUrl(ServedServer, ServedProject, ServedCommit)

\* get_element_fromAPI(query_url, element_id) for a query_url built from the
\* caller's request: without element_id the URL cannot be built (TypeError,
\* caught); without server_url the URL has no scheme and session.get raises
\* before anything is sent (caught); with another project or commit in the
\* path the GET is sent and the server answers 404
get_element_scoped(query_url, element_id) ==
    IF ~IsStr(element_id) THEN Ret(None, <<>>)
    ELSE IF ~IsStr(query_url.server) THEN Ret(None, <<>>)
    ELSE IF query_url # Served
         THEN Caught(element_of(NotFound, <<Request("GET", element_id.s)>>))
    ELSE get_element_fromAPI(element_id)

-----------------------------------------------------------------------------
(* queryFeatureValue: sysmlv2-api-server.py 124-144 *)

\* str(v) inside an f-string: the text of a string or a number, "None", and
\* the repr of a list or a dict, which is no scalar text
PyStr(v) ==
    CASE v.k = "str"  -> [k |-> "text", s |-> v.s]
      [] v.k = "num"  -> [k |-> "text", s |-> ToString(v.n)]
      [] v.k = "null" -> [k |-> "text", s |-> "None"]
      [] OTHER        -> [k |-> "repr", of |-> v]

\* f"{name}={value}"
NameValue(name, value) ==
    [k |-> "fstring", name |-> PyStr(name), value |-> PyStr(value)]

\* lines 143-144: the owner fetched, the string is formatted
query_format(owner, value, log) ==
    IF ~IsDict(owner.val) THEN Raise(log \o owner.log)     \* owner.get raises
    ELSE IF value.k = "unbound" THEN Raise(log \o owner.log)   \* UnboundLocalError
    ELSE Ret(Reply(StatusOK,
                   NameValue(GetOr(owner.val, "name", Str("Unknown Owner")), value)),
             log \o owner.log)

\* line 142: the owner of the value element is fetched
query_owner(featureValue, value, log) ==
    IF value.exc THEN Raise(log \o value.log)
    ELSE IF IsExc(PyGet(PyGet(featureValue, "owner"), "@id"))
         THEN Raise(log \o value.log)
    ELSE query_format(FetchV(PyGet(PyGet(featureValue, "owner"), "@id")),
                      value.val, log \o value.log)

\* lines 138-141: value, as the branches assign it
query_value(featureValue) ==
    IF ~IsDict(featureValue) \/ ~IsStr(PyGet(featureValue, "@type"))
    THEN Raise(<<>>)                          \* .get or .startswith raises
    ELSE IF StartsWithLiteral(Get(featureValue, "@type").s)
         THEN Ret(GetOr(featureValue, "value", Str("")), <<>>)
    ELSE IF Get(featureValue, "@type").s = "OperatorExpression"
         THEN getValueFromOperatorExpressionUnit(featureValue)
    ELSE Ret([k |-> "unbound"], <<>>)      \* value is never assigned

\* lines 137-144: the value element r fetched
query_element(r) == query_owner(r.val, query_value(r.val), r.log)

\* lines 127-144, the handler without its decorator
queryFeatureValue_body(input_data) ==
    query_element(
        get_element_scoped(QueryUrl(Get(input_data, "server_url"),
                                    Get(input_data, "project_id"),
                                    Get(input_data, "commit_id")),
                           Get(input_data, "element_id")))

queryFeatureValue(input_data) == handle_errors(queryFeatureValue_body(input_data))

-----------------------------------------------------------------------------
(* writeFeatureValue: sysmlv2-api-server.py 149-195 *)

\* the key under which the server holds its answer to POST .../commits
CommitPost == "post:commits"

\* lines 189-195: new_commit_id out of the response r of the POST
write_reply(r, log) ==
    IF r.err THEN Raise(log)                         \* requests.post raises
    ELSE IF r.status # StatusOK THEN Ret(Reply(StatusOK, PyStr(Str(""))), log)
    ELSE IF IsExc(PySub(r.body, "@id")) THEN Raise(log)   \* json() or ['@id']
    ELSE Ret(Reply(StatusOK, PyStr(PySub(r.body, "@id"))), log)

\* lines 165-195: the element fetched, the commit is posted
write_commit(element, query_url) ==
    IF ~IsDict(element.val) THEN Raise(element.log)  \* element.get raises
    ELSE write_reply(IF query_url = Served THEN Lookup(CommitPost) ELSE NotFound,
                     element.log \o <<Request("POST", CommitPost)>>)

\* lines 152-195, the handler without its decorator
writeFeatureValue_body(input_data) ==
    IF ~IsStr(Get(input_data, "commit_id"))
    THEN Raise(<<>>)                         \* "/" + commit_id: TypeError
    ELSE write_commit(
             get_element_scoped(QueryUrl(Get(input_data, "server_url"),
                                         Get(input_data, "project_id"),
                                         Get(input_data, "commit_id")),
                                Get(input_data, "element_id")),
             QueryUrl(Get(input_data, "server_url"),
                      Get(input_data, "project_id"),
                      Get(input_data, "commit_id")))

writeFeatureValue(input_data) == handle_errors(writeFeatureValue_body(input_data))

-----------------------------------------------------------------------------
(* api_commits and get_commits: sysmlv2-api-server.py 64-76,               *)
(* sysmlv2_api_helpers.py 42-60                                            *)

\* the key under which the server holds its answer to GET .../commits
CommitsQuery == "query:commits"

\* s.split(' ')[0] on the texts of the model: the caller selects a project
\* by its id, a blank and its name
FirstWord(s) == IF s = "p1 Project One" THEN "p1" ELSE s

\* the sort key of line 59: createdAt, else id, else ''
SortKey(x) == GetOr(x, "createdAt", GetOr(x, "id", Str("")))

\* the order of the sort keys of the model as strings: the empty string,
\* the timestamps (they start with a digit), the commit ids
IdRank(t) ==
    CASE t = "" -> 0
      [] t = "2025-01-01" -> 1
      [] t = "2025-01-02" -> 2
      [] t = "c1" -> 3
      [] t = "c2" -> 4
      [] OTHER -> 5

\* Python can compare two sort keys: both numbers or both strings
Comparable(a, b) == (a.k = "num" /\ b.k = "num") \/ (a.k = "str" /\ b.k = "str")

\* a < b on two comparable sort keys
KeyLess(a, b) == IF a.k = "num" THEN a.n < b.n ELSE IdRank(a.s) < IdRank(b.s)

\* sorted(commits, key=...) for the lists of up to two commits of the model:
\* stable, Exc when an item has no get or two keys cannot be compared
sorted_commits(commits) ==
    IF \E i \in 1..Len(commits) : ~IsDict(commits[i]) THEN Exc
    ELSE IF Len(commits) < 2 THEN List(commits)
    ELSE IF ~Comparable(SortKey(commits[2]), SortKey(commits[1])) THEN Exc
    ELSE IF KeyLess(SortKey(commits[2]), SortKey(commits[1]))
         THEN List(<<commits[2], commits[1]>>)
    ELSE List(commits)

\* helpers 52-60: the response r of the GET
commits_of(r, log) ==
    IF r.err THEN Raise(log)
    ELSE IF r.status # StatusOK THEN Raise(log)         \* ValueError, line 53
    ELSE IF ~IsList(r.body) THEN Raise(log)             \* json() or line 57
    ELSE IF IsExc(sorted_commits(r.body.items)) THEN Raise(log)
    ELSE Ret(sorted_commits(r.body.items), log)

\* helpers 42-60
get_commits(server_url, project_id) ==
    IF ~Truthy(server_url) \/ ~Truthy(project_id)
    THEN Raise(<<>>)                                    \* ValueError, line 47
    ELSE commits_of(IF server_url = ServedServer /\ project_id = ServedProject
                    THEN Lookup(CommitsQuery) ELSE NotFound,
                    <<Request("GET", CommitsQuery)>>)

\* line 76: jsonify(commits)
commits_reply(t) == IF t.exc THEN t ELSE Ret(Reply(StatusOK, t.val), t.log)

\* server 67-76, the handler without its decorator
api_commits_body(input_data) ==
    IF ~IsStr(GetOr(input_data, "project_id", Str("")))
    THEN Raise(<<>>)                                    \* no split
    ELSE commits_reply(
             get_commits(Get(input_data, "server_url"),
                         Str(FirstWord(GetOr(input_data, "project_id", Str("")).s))))

api_commits(input_data) == handle_errors(api_commits_body(input_data))

-----------------------------------------------------------------------------
(* The model store: a small SysML v2 model behind the server.              *)
(*   part1 owns the attributes f1 and f2                                   *)
(*   f1    owns a varying list of relationships among fv1, fv2, red1       *)
(*   fv1   FeatureValue -> lit1 (LiteralInteger 42)                        *)
(*   fv2   FeatureValue -> oe1 (OperatorExpression)                        *)
(*   oe1   owns a varying list of memberships among pmx, pmy               *)
(*   pmx   ParameterMembership "x" -> par1 -> pfv1 -> its operand          *)
(*   pmy   ParameterMembership "y" -> par2 -> pfv2 -> lit1                 *)
(*   f2    owns fv3, FeatureValue -> lit3 (LiteralBoolean)                 *)
(*   md1   MetadataDefinition Domain1; mu1 its usage, annotating part1     *)
(*   c1    the commit served; c2 the commit a write creates                *)

\* a commit as GET .../commits lists it
Commit(id, createdAt) ==
    Dict(("@id" :> Str(id)) @@ ("@type" :> Str("Commit")) @@ ("id" :> Str(id))
         @@ ("createdAt" :> createdAt))

RelChoices == {"fv1", "fv2", "red1"}
OpRelChoices == {"pmx", "pmy"}
Operands == {"lit2", "oe1", "f1"}

\* the documents of the model when f1 owns f1rels, oe1 owns oerels and the
\* value of the parameter x is `operand`
Model(f1rels, oerels, operand) ==
    [id \in {"part1", "f1", "f2", "fv1", "lit1", "fv2", "oe1", "pmx", "pmy",
             "par1", "pfv1", "lit2", "par2", "pfv2", "red1", "fv3", "lit3",
             MetaDefQuery, MetaUsageQuery, CommitPost, CommitsQuery} |->
        CASE id = CommitPost -> Dict("@id" :> Str("c2"))
          [] id = CommitsQuery -> List(<<Commit("c2", Str("2025-01-02")), Commit("c1", Str("2025-01-01"))>>)
          [] id = MetaDefQuery ->
               List(<<MetaDef("md1", "Domain1"), MetaDef("md2", "Domain2")>>)
          [] id = MetaUsageQuery ->
               List(<<MetaUsage("mu1", ("metadataDefinition" :> Stub("md1"))
                                @@ ("annotatedElement" :> Stubs(<<"part1">>)))>>)
          [] id = "part1" ->
               Elem(id, "PartUsage", ("name" :> Str("part1"))
                    @@ ("declaredName" :> Str("part1"))
                    @@ ("ownedFeature" :> Stubs(<<"f1", "f2">>)))
          [] id = "f1" ->
               Elem(id, "AttributeUsage", ("name" :> Str("a1"))
                    @@ ("owner" :> Stub("part1"))
                    @@ ("ownedRelationship" :> Stubs(f1rels)))
          [] id = "f2" ->
               Elem(id, "AttributeUsage", ("name" :> Str("a2"))
                    @@ ("owner" :> Stub("part1"))
                    @@ ("ownedRelationship" :> Stubs(<<"fv3">>)))
          [] id = "fv1" ->
               Elem(id, "FeatureValue", ("owner" :> Stub("f1"))
                    @@ ("ownedRelatedElement" :> Stubs(<<"lit1">>))
                    @@ ("memberElement" :> Stub("lit1")))
          [] id = "lit1" ->
               Elem(id, "LiteralInteger", ("value" :> Num(42))
                    @@ ("owner" :> Stub("f1")))
          [] id = "fv2" ->
               Elem(id, "FeatureValue", ("owner" :> Stub("f1"))
                    @@ ("ownedRelatedElement" :> Stubs(<<"oe1">>))
                    @@ ("memberElement" :> Stub("oe1")))
          [] id = "oe1" ->
               Elem(id, "OperatorExpression", ("owner" :> Stub("f1"))
                    @@ ("ownedRelationship" :> Stubs(oerels)))
          [] id = "pmx" ->
               Elem(id, "ParameterMembership", ("memberName" :> Str("x"))
                    @@ ("memberElement" :> Stub("par1")))
          [] id = "pmy" ->
               Elem(id, "ParameterMembership", ("memberName" :> Str("y"))
                    @@ ("memberElement" :> Stub("par2")))
          [] id = "par1" ->
               Elem(id, "Feature", ("name" :> Str("x"))
                    @@ ("ownedRelationship" :> Stubs(<<"pfv1">>)))
          [] id = "pfv1" ->
               Elem(id, "FeatureValue",
                    ("ownedRelatedElement" :> Stubs(<<operand>>))
                    @@ ("memberElement" :> Stub(operand)))
          [] id = "lit2" ->
               Elem(id, "LiteralString", ("value" :> Str("ok")))
          [] id = "par2" ->
               Elem(id, "Feature", ("name" :> Str("y"))
                    @@ ("ownedRelationship" :> Stubs(<<"pfv2">>)))
          [] id = "pfv2" ->
               Elem(id, "FeatureValue",
                    ("ownedRelatedElement" :> Stubs(<<"lit1">>))
                    @@ ("memberElement" :> Stub("lit1")))
          [] id = "red1" ->
               Elem(id, "Redefinition", ("redefinedFeature" :> Stub("f2")))
          [] id = "fv3" ->
               Elem(id, "FeatureValue", ("owner" :> Stub("f2"))
                    @@ ("ownedRelatedElement" :> Stubs(<<"lit3">>))
                    @@ ("memberElement" :> Stub("lit3")))
          [] id = "lit3" ->
               Elem(id, "LiteralBoolean", ("value" :> Str("true"))
                    @@ ("owner" :> Stub("f2")))]

\* How the server may answer the GET of an element whose document is doc:
\* a non-200 status, a failed connection, the document wrapped in two lists
\* (the fetcher removes one), a list holding a string, the document without
\* its fields.
FaultKinds == {"status", "transport", "nested", "scalar", "stripped"}
FaultIds == {"part1", "f1", "f2", "fv1", "lit1", "fv2", "oe1", "pmx", "pmy",
             "par1", "pfv1", "lit2", "fv3", "lit3", "red1",
             MetaDefQuery, MetaUsageQuery}

Faulty(kind, doc) ==
    CASE kind = "status"    -> Response(500, Dict("error" :> Str("server error")))
      [] kind = "transport" -> TransportError
      [] kind = "nested"    -> Response(StatusOK, List(<<List(<<doc>>)>>))
      [] kind = "scalar"    -> Response(StatusOK, List(<<Str("oops")>>))
      [] kind = "stripped"  -> Response(StatusOK, IF IsDict(doc)
                                                  THEN Dict("@id" :> doc.f["@id"])
                                                  ELSE List(<<>>))

\* the server over model m, answering the GET of `bad` in the way `kind` says
\* and serving every other document as it is; bad = "none": a healthy server
WithFault(m, bad, kind) ==
    [id \in DOMAIN m |-> IF id = bad THEN Faulty(kind, m[id])
                         ELSE Response(StatusOK, m[id])]

FeatureIds == {"f1", "f2"}

-----------------------------------------------------------------------------
(* The resolution engine over a store *)

Init ==
    /\ \E f1rels \in SeqsUpTo(RelChoices, MaxRels),
          oerels \in SeqsUpTo(OpRelChoices, MaxOpRels),
          operand \in Operands,
          bad \in FaultIds \cup {"none"},
          kind \in FaultKinds :
          store = WithFault(Model(f1rels, oerels, operand), bad, kind)
    /\ pc = "idle"
    /\ op = "none"
    /\ input = None
    /\ ret = NoRet

\* getFeatureValueFromFeature(server_url, project_id, commit_id, fid)
Resolve ==
    /\ pc = "idle"
    /\ \E fid \in FeatureIds :
          /\ input' = Str(fid)
          /\ ret' = getFeatureValueFromFeature(Str(fid))
    /\ op' = "getFeatureValueFromFeature"
    /\ pc' = "done"
    /\ UNCHANGED store

\* the identities handed to a batch, and the requests of the caller
BatchIds == {<<Str("f1"), Str("f2")>>}
FullRequest ==
    Dict(("server_url" :> Str("http://server")) @@ ("project_id" :> Str("p1"))
         @@ ("commit_id" :> Str("c1")) @@ ("domain_name" :> Str("Domain1")))
Requests ==
    { FullRequest,
      Dict(("server_url" :> Str("http://server")) @@ ("project_id" :> Str("p1"))
           @@ ("domain_name" :> Str("Domain1"))) }

\* lines 117-119: the features are loaded and written as rows
BatchResolve ==
    /\ pc = "idle"
    /\ \E ids \in BatchIds :
          /\ input' = List(ids)
          /\ ret' = domain_output(get_elements_fromAPI(ids), <<>>)
    /\ op' = "outputAttributesToCSV"
    /\ pc' = "done"
    /\ UNCHANGED store

\* POST /api/get-domain-features
DomainFeatures ==
    /\ pc = "idle"
    /\ \E req \in Requests :
          /\ input' = req
          /\ ret' = getDomainFeatures(req)
    /\ op' = "getDomainFeatures"
    /\ pc' = "done"
    /\ UNCHANGED store

Next == Resolve \/ BatchResolve \/ DomainFeatures

Spec == Init /\ [][Next]_vars

-----------------------------------------------------------------------------
(* The caller-facing operations with complete and incomplete requests *)

\* the answers of GET .../commits besides the one of Model: no commit, commits
\* without createdAt, one commit with and one without, a createdAt that is a
\* number next to an id
CommitLists ==
    { <<Commit("c2", Str("2025-01-02")), Commit("c1", Str("2025-01-01"))>>,
      <<>>,
      <<Dict("id" :> Str("c2")), Dict("id" :> Str("c1"))>>,
      <<Dict("id" :> Str("c2")), Commit("c1", Str("2025-01-01"))>>,
      <<Commit("c1", Num(1)), Dict("id" :> Str("c2"))>> }

ApiInit ==
    /\ \E oerels \in SeqsUpTo(OpRelChoices, MaxOpRels),
          operand \in Operands,
          bad \in {"lit1", "oe1", "pmx", "f1", CommitPost, CommitsQuery, "none"},
          kind \in FaultKinds,
          commits \in CommitLists :
          /\ bad = "none" \/ commits = <<Commit("c2", Str("2025-01-02")), Commit("c1", Str("2025-01-01"))>>
          /\ store = [WithFault(Model(<<"fv2">>, oerels, operand), bad, kind)
                        EXCEPT ![CommitsQuery] =
                            IF bad = CommitsQuery THEN @
                            ELSE Response(StatusOK, List(commits))]
    /\ pc = "idle"
    /\ op = "none"
    /\ input = None
    /\ ret = NoRet

\* request d as it is and with one of its fields missing
Variants(d) ==
    {d} \cup {Dict([k \in DOMAIN d.f \ {key} |-> d.f[k]]) : key \in DOMAIN d.f}

QueryRequest(e) ==
    Dict(("server_url" :> ServedServer) @@ ("project_id" :> ServedProject)
         @@ ("commit_id" :> ServedCommit) @@ ("element_id" :> Str(e)))
WriteRequest(e) ==
    Dict(("server_url" :> ServedServer) @@ ("project_id" :> ServedProject)
         @@ ("commit_id" :> ServedCommit) @@ ("element_id" :> Str(e))
         @@ ("value" :> Num(7)))
CommitsRequest ==
    Dict(("server_url" :> ServedServer) @@ ("project_id" :> Str("p1 Project One")))

\* POST /api/query-feature-value
QueryFeatureValue ==
    /\ pc = "idle"
    /\ \E e \in {"lit1", "lit2", "oe1"} : \E req \in Variants(QueryRequest(e)) :
          /\ input' = req
          /\ ret' = queryFeatureValue(req)
    /\ op' = "queryFeatureValue"
    /\ pc' = "done"
    /\ UNCHANGED store

\* POST /api/write-feature-value; the commit served stays as it is, the
\* write makes a new one
WriteFeatureValue ==
    /\ pc = "idle"
    /\ \E req \in Variants(WriteRequest("lit1")) :
          /\ input' = req
          /\ ret' = writeFeatureValue(req)
    /\ op' = "writeFeatureValue"
    /\ pc' = "done"
    /\ UNCHANGED store

\* POST /api/commits
Commits ==
    /\ pc = "idle"
    /\ \E req \in Variants(CommitsRequest) :
          /\ input' = req
          /\ ret' = api_commits(req)
    /\ op' = "api_commits"
    /\ pc' = "done"
    /\ UNCHANGED store

\* POST /api/get-domain-features, complete or with one field missing
ApiDomainFeatures ==
    /\ pc = "idle"
    /\ \E req \in Variants(FullRequest) :
          /\ input' = req
          /\ ret' = getDomainFeatures(req)
    /\ op' = "getDomainFeatures"
    /\ pc' = "done"
    /\ UNCHANGED store

ApiNext == QueryFeatureValue \/ WriteFeatureValue \/ Commits \/ ApiDomainFeatures

SpecApi == ApiInit /\ [][ApiNext]_vars

-----------------------------------------------------------------------------
(* C7, C8 *)

\* the contract of normalize, by cases on the shape of the input
RECURSIVE NormalizeContract(_)
NormalizeContract(x) ==
    CASE IsDict(x) -> x
      [] IsList(x) /\ x.items = <<>> -> None
      [] IsList(x) /\ x.items # <<>> -> NormalizeContract(Head(x.items))
      [] OTHER -> None

\* C7: normalize returns the input when it is a mapping, the normal form of
\* the first element for a sequence (None when it is empty) and None for any
\* other value; normalize([[{"a":1}]]) = {"a":1}, normalize([]) = None,
\* normalize([["x"]]) = None; the result is always a mapping or None.
C7_NormalizeContract ==
    /\ ensure_dict(List(<<List(<<DictA>>)>>)) = DictA
    /\ ensure_dict(List(<<>>)) = None
    /\ ensure_dict(List(<<List(<<Str("x")>>)>>)) = None
    /\ (pc = "done" /\ op = "ensure_dict") =>
          /\ ~ret.exc
          /\ ret.val = NormalizeContract(input)
          /\ IsDict(ret.val) \/ IsNone(ret.val)

\* a list two wrappers deep around a scalar, and one around a mapping, went through
C7_Witness ==
    /\ pc = "done" /\ op = "ensure_dict"
    /\ IsList(input) /\ input.items # <<>>
    /\ IsList(input.items[1]) /\ input.items[1].items # <<>>
    /\ IsStr(input.items[1].items[1])
    /\ ret.val = None

\* C8: normalize is idempotent: normalizing a result of normalize changes nothing.
C8_NormalizeIdempotent ==
    (pc = "done" /\ op = "ensure_dict") =>
        ensure_dict(ret.val) = ret.val

\* a nested list was normalized to the mapping at its bottom
C8_Witness ==
    /\ pc = "done" /\ op = "ensure_dict"
    /\ IsList(input) /\ input.items # <<>>
    /\ IsList(input.items[1])
    /\ IsDict(ret.val)

-----------------------------------------------------------------------------
(* C5 *)

\* C5: fetch never raises; a non-success status or a transport exception
\* gives None, a success with a mapping body gives the body, a success with a
\* sequence body gives its first element, or None when it is empty.
C5_FetchContract ==
    (pc = "done" /\ op = "get_element_fromAPI" /\ IsStr(input)) =>
        LET r == Lookup(input.s)
        IN  /\ ~ret.exc
            /\ (r.err \/ r.status # StatusOK) => ret.val = None
            /\ (~r.err /\ r.status = StatusOK /\ IsDict(r.body)) => ret.val = r.body
            /\ (~r.err /\ r.status = StatusOK /\ IsList(r.body)) =>
                  ret.val = IF r.body.items = <<>> THEN None ELSE Head(r.body.items)

\* a success whose body is a list of two elements gave the first
C5_Witness ==
    /\ pc = "done" /\ op = "get_element_fromAPI" /\ IsStr(input)
    /\ ~Lookup(input.s).err /\ Lookup(input.s).status = StatusOK
    /\ IsList(Lookup(input.s).body)
    /\ Len(Lookup(input.s).body.items) = 2
    /\ ret.val = Lookup(input.s).body.items[1]
    /\ IsDict(ret.val)

-----------------------------------------------------------------------------
(* C1, C3, C4 *)

Resolved == pc = "done" /\ op = "getFeatureValueFromFeature"

\* the element the resolver sees for identity idv: fetched, then normalized
Elt(idv) == ensure_dict(get_element_fromAPI(idv).val)
\* the element the decoder sees for identity idv: fetched only
Raw(idv) == get_element_fromAPI(idv).val

IsPair(v) == IsDict(v) /\ DOMAIN v.f = {"value_id", "value"}

\* C1: whatever the store holds, resolveFeatureValue ends by returning a
\* {value_id, value} pair or None; no exception leaves it.
C1_ResolveNeverRaises ==
    Resolved => /\ ~ret.exc
                /\ IsNone(ret.val) \/ IsPair(ret.val)

\* an exception was raised inside the walk, and the caller got None
C1_Witness ==
    /\ Resolved
    /\ getFeatureValue_try(input).exc
    /\ ~ret.exc /\ IsNone(ret.val)

\* the relationships of element e, as the list of their stubs
RelStubs(e) == GetOr(e, "ownedRelationship", List(<<>>)).items

\* the positions of the FeatureValue relationships among the stubs
FeatureValueAt(stubs) ==
    {i \in 1..Len(stubs) :
        StrIs(PyGet(Elt(PyGet(stubs[i], "@id")), "@type"), "FeatureValue")}

\* the element the first ownedRelatedElement of relationship r resolves to
ValueElementOf(r) ==
    Elt(PyGet(PyIndex0(GetOr(r, "ownedRelatedElement", List(<<>>))), "@id"))

\* the request for `key` met a transport error: no connection, or a status
\* that is not 200
TransportFailed(key) == Lookup(key).err \/ Lookup(key).status # StatusOK

\* the batch ran: the rows of f1 and f2 were asked for, directly or through
\* POST /api/get-domain-features with a complete request
BatchDone ==
    /\ pc = "done"
    /\ \/ op = "outputAttributesToCSV"
       \/ op = "getDomainFeatures" /\ input = FullRequest

ElementIds == DOMAIN store \ {MetaDefQuery, MetaUsageQuery}
FailedFetches == {id \in ElementIds : TransportFailed(id)}

\* the fetches that belong to feature f: the feature, its owner and every
\* element its value resolution asks for
FetchesOf(f) ==
    LET log == getFeatureValueFromFeature(Str(f)).log
    IN  {f} \cup {log[i].key : i \in 1..Len(log)}
        \cup (IF IsDict(Elt(Str(f))) /\ IsDict(Get(Elt(Str(f)), "owner"))
              THEN {KeyOf(Get(Get(Elt(Str(f)), "owner"), "@id"))} ELSE {})

RowsOf(f) ==
    {i \in 1..Len(ret.val.body) : ret.val.body[i]["@id"] = f}

\* C2: when exactly one element fetch fails, the batch does not fail, every
\* feature the failed fetch does not belong to has its correct row, and the
\* row of a feature whose value could not be resolved has blank value and
\* value_id.
C2_BatchSurvivesOneFailure ==
    (BatchDone /\ Cardinality(FailedFetches) = 1
       /\ ~TransportFailed(MetaDefQuery) /\ ~TransportFailed(MetaUsageQuery))
    => /\ ~ret.exc
       /\ ret.val.status = StatusOK
       /\ \A f \in FeatureIds :
            FetchesOf(f) \cap FailedFetches = {} =>
               \E i \in RowsOf(f) :
                  LET fv == getFeatureValueFromFeature(Str(f)).val
                      row == ret.val.body[i]
                  IN  /\ row["type"] = "AttributeUsage"
                      /\ row["name"] = CsvCell(Get(Elt(Str(f)), "name"))
                      /\ row["owner"] = "part1"
                      /\ IsPair(fv) => /\ row["value"] = CsvCell(fv.f["value"])
                                       /\ row["value_id"] = CsvCell(fv.f["value_id"])
       /\ \A f \in FeatureIds :
            (FetchesOf(f) \cap FailedFetches # {}
               /\ IsNone(getFeatureValueFromFeature(Str(f)).val)) =>
               \A i \in RowsOf(f) : /\ ret.val.body[i]["value"] = ""
                                    /\ ret.val.body[i]["value_id"] = ""

\* C3: a feature with exactly one FeatureValue relationship, whose first
\* ownedRelatedElement resolves to a Literal* element with id L and value v,
\* resolves to {value_id: L, value: v}, whatever other relationships come
\* before or after it.
C3_LiteralValue ==
    (Resolved /\ IsDict(Elt(input))) =>
        LET stubs == RelStubs(Elt(input))
            at == FeatureValueAt(stubs)
        IN  \A i \in at :
               LET lit == ValueElementOf(Elt(PyGet(stubs[i], "@id")))
               IN  (/\ Cardinality(at) = 1
                    /\ IsDict(lit)
                    /\ IsStr(Get(lit, "@type"))
                    /\ Get(lit, "@type").s \in LiteralTypes)
                   => ret.val = ValuePair(Get(lit, "@id"), Get(lit, "value"))

\* f1 owned a Redefinition and then its FeatureValue, and resolved to lit1
C3_Witness ==
    /\ Resolved /\ input = Str("f1")
    /\ IsDict(Elt(input))
    /\ Len(RelStubs(Elt(input))) = 2
    /\ FeatureValueAt(RelStubs(Elt(input))) = {2}
    /\ StrIs(PyGet(Elt(Str("red1")), "@type"), "Redefinition")
    /\ RelStubs(Elt(input))[1] = Stub("red1")
    /\ ret.val = ValuePair(Str("lit1"), Num(42))

IsParamX(r) ==
    /\ IsDict(r)
    /\ StrIs(Get(r, "@type"), "ParameterMembership")
    /\ StrIs(Get(r, "memberName"), "x")

\* the literal at the end of the chain of membership pm: its memberElement,
\* that feature's first owned relationship, that relationship's memberElement
OperandOf(pm) ==
    Raw(PySub(PySub(
        Raw(PySub(PyIndex0(PySub(
            Raw(PySub(PySub(pm, "memberElement"), "@id")),
            "ownedRelationship")), "@id")),
        "memberElement"), "@id"))

\* C4: a feature whose FeatureValue points to an OperatorExpression owning a
\* ParameterMembership named x (the relationships the expression owns before
\* it being relationships of another kind or name), whose parameter's first
\* relationship points to a literal with id L and value v, resolves to
\* {value_id: L, value: v}, never to the id of the OperatorExpression.
C4_OperatorExpressionValue ==
    (Resolved /\ IsDict(Elt(input))) =>
        LET stubs == RelStubs(Elt(input))
            at == FeatureValueAt(stubs)
        IN  \A i \in at :
               LET oe == ValueElementOf(Elt(PyGet(stubs[i], "@id")))
                   ms == IF IsDict(oe) THEN RelStubs(oe) ELSE <<>>
               IN  \A j \in 1..Len(ms) :
                      LET lit == OperandOf(Raw(PyGet(ms[j], "@id")))
                      IN  (/\ Cardinality(at) = 1
                           /\ StrIs(Get(oe, "@type"), "OperatorExpression")
                           /\ IsParamX(Raw(PyGet(ms[j], "@id")))
                           /\ \A h \in 1..(j - 1) :
                                 /\ IsDict(Raw(PyGet(ms[h], "@id")))
                                 /\ ~IsParamX(Raw(PyGet(ms[h], "@id")))
                           /\ IsDict(lit)
                           /\ IsStr(Get(lit, "@type"))
                           /\ Get(lit, "@type").s \in LiteralTypes)
                          => /\ ret.val = ValuePair(Get(lit, "@id"), Get(lit, "value"))
                             /\ Get(ret.val, "value_id") # Get(oe, "@id")

\* f1's value was oe1, whose second membership is x, and resolved to lit2
C4_Witness ==
    /\ Resolved /\ input = Str("f1")
    /\ IsDict(Elt(input))
    /\ \E i \in FeatureValueAt(RelStubs(Elt(input))) :
          LET oe == ValueElementOf(Elt(PyGet(RelStubs(Elt(input))[i], "@id")))
          IN  /\ StrIs(PyGet(oe, "@type"), "OperatorExpression")
              /\ Len(RelStubs(oe)) = 2
              /\ ~IsParamX(Raw(PyGet(RelStubs(oe)[1], "@id")))
              /\ IsParamX(Raw(PyGet(RelStubs(oe)[2], "@id")))
    /\ ret.val = ValuePair(Str("lit2"), Str("ok"))

-----------------------------------------------------------------------------
(* C6, C9, C10 *)


AfterFetch == pc = "done" /\ op = "get_element_fromAPI"
AfterMetaIds == pc = "ids" /\ op = "get_metadata_ids_by_name"
AfterAnnotated == pc = "done" /\ op = "get_metadatausage_annotatedElement_ids"

\* None, an empty result, or the mapping {"error": ...} that holds no identity
IsEmptyResult(v) ==
    \/ IsNone(v) \/ v = EmptyDict \/ v = List(<<>>)
    \/ (IsDict(v) /\ "error" \in DOMAIN v.f)

\* C6 as stated: a transport error at the element GET, the MetadataDefinition
\* query or the MetadataUsage query becomes None or an empty result and is
\* never raised into the caller.
C6_TransportErrorsAreSoft ==
    /\ (AfterFetch /\ TransportFailed(input.s)) =>
          (~ret.exc /\ IsEmptyResult(ret.val))
    /\ (AfterMetaIds /\ TransportFailed(MetaDefQuery)) =>
          (~ret.exc /\ IsEmptyResult(ret.val))
    /\ (AfterAnnotated /\ TransportFailed(MetaUsageQuery)) =>
          (~ret.exc /\ IsEmptyResult(ret.val))

\* C6 amended: a transport error at the element GET becomes None and one at
\* the MetadataDefinition query becomes an error mapping {"error": ...},
\* neither is raised; one at the MetadataUsage query is raised out of
\* get_metadatausage_annotatedElement_ids into its caller.
C6_TransportErrorsByBoundary ==
    /\ (AfterFetch /\ TransportFailed(input.s)) =>
          (~ret.exc /\ IsNone(ret.val))
    /\ (AfterMetaIds /\ TransportFailed(MetaDefQuery)) =>
          (~ret.exc /\ IsDict(ret.val) /\ "error" \in DOMAIN ret.val.f)
    /\ (AfterAnnotated /\ TransportFailed(MetaUsageQuery)) => ret.exc

\* the MetadataUsage query met a failed connection after the MetadataDefinition
\* query had been answered, and the exception left the function
C6_Witness ==
    /\ AfterAnnotated
    /\ Lookup(MetaUsageQuery).err
    /\ ~TransportFailed(MetaDefQuery)
    /\ IsList(Lookup(MetaDefQuery).body)
    /\ ret.exc

\* the answer to the MetadataDefinition query is a list of elements with an @id
DefsAnswered ==
    /\ ~TransportFailed(MetaDefQuery)
    /\ IsList(Lookup(MetaDefQuery).body)
    /\ \A i \in 1..Len(Lookup(MetaDefQuery).body.items) :
          /\ IsDict(Lookup(MetaDefQuery).body.items[i])
          /\ "@id" \in DOMAIN Lookup(MetaDefQuery).body.items[i].f

\* the positions of the definitions whose declaredShortName is `name`
DefsNamed(name) ==
    {i \in 1..Len(Lookup(MetaDefQuery).body.items) :
        Get(Lookup(MetaDefQuery).body.items[i], "declaredShortName") = name}

Min(S) == CHOOSE x \in S : \A y \in S : x <= y

\* C9: the mapping returned for a query result has exactly the requested
\* short names as keys; each maps to the @id of the first MetadataDefinition
\* of that declaredShortName in the result, or to None when there is none.
C9_MetadataIdsByShortName ==
    (AfterMetaIds /\ DefsAnswered) =>
        /\ ~ret.exc
        /\ IsDict(ret.val)
        /\ DOMAIN ret.val.f = {input.items[i].s : i \in 1..Len(input.items)}
        /\ \A i \in 1..Len(input.items) :
              ret.val.f[input.items[i].s] =
                 IF DefsNamed(input.items[i]) = {} THEN None
                 ELSE Lookup(MetaDefQuery).body.items[Min(DefsNamed(input.items[i]))].f["@id"]

\* two definitions named Domain1 were in the result: the id of the first one
\* was returned, and the short name Unknown asked with it mapped to None
C9_Witness ==
    /\ AfterMetaIds /\ DefsAnswered
    /\ input = List(<<Str("Domain1"), Str("Unknown")>>)
    /\ DefsNamed(Str("Domain1")) = {1, 2}
    /\ Lookup(MetaDefQuery).body.items[1] # Lookup(MetaDefQuery).body.items[2]
    /\ ret.val.f["Domain1"] = Lookup(MetaDefQuery).body.items[1].f["@id"]
    /\ IsNone(ret.val.f["Unknown"])

HasEntryPerKey(result, metadataIdMap) ==
    /\ IsDict(result)
    /\ DOMAIN result.f = DOMAIN metadataIdMap.f
    /\ \A key \in DOMAIN result.f : IsList(result.f[key])

\* C10 as stated: whenever annotatedElementIds returns, its result has one
\* entry per key of metadataIdMap and no other key, for every query response,
\* an empty list of MetadataUsage elements included.
C10_EntryPerKeyAlways ==
    (AfterAnnotated /\ ~ret.exc) => HasEntryPerKey(ret.val, input)

\* C10 amended: whenever annotatedElementIds returns, its result has one
\* entry per key of metadataIdMap and no other key when the query response is
\* a non-empty list; for an empty list, or a response that is not a list, it
\* is the empty mapping.
C10_EntryPerKeyOfNonEmptyAnswer ==
    (AfterAnnotated /\ ~ret.exc) =>
        IF IsList(Lookup(MetaUsageQuery).body) /\ Lookup(MetaUsageQuery).body.items # <<>>
        THEN HasEntryPerKey(ret.val, input)
        ELSE ret.val = EmptyDict

\* two short names were asked, the usages annotate only the first: the other
\* has an empty list
C10_Witness ==
    /\ AfterAnnotated /\ ~ret.exc
    /\ DOMAIN input.f = {"Domain2", "Unknown"}
    /\ Len(Lookup(MetaUsageQuery).body.items) > 0
    /\ ret.val.f["Domain2"].items # <<>>
    /\ ret.val.f["Unknown"].items = <<>>

-----------------------------------------------------------------------------
(* The depth of unwrapping *)

\* the number of sequences around the first-element chain of v, and the
\* value at its end
RECURSIVE Depth(_)
Depth(v) ==
    IF IsList(v) THEN IF v.items = <<>> THEN 1 ELSE 1 + Depth(v.items[1]) ELSE 0

RECURSIVE Bottom(_)
Bottom(v) == IF IsList(v) /\ v.items # <<>> THEN Bottom(v.items[1]) ELSE v

Normalized == pc = "done" /\ op = "ensure_dict"

\* C16 as stated: there is a depth D below the deepest input explored such
\* that every input nested more than D sequences deep is normalized to None.
C16_DepthBounded ==
    \E D \in 0..(MaxDepth - 1) :
        (Normalized /\ Depth(input) > D) => IsNone(ret.val)

\* C16: ensure_dict has no depth bound; its depth counter is only printed.
\* A mapping at the end of the first-element chain is returned whatever the
\* number of sequences around it.
C16_NoDepthBound ==
    (Normalized /\ IsDict(Bottom(input))) =>
        /\ ~ret.exc
        /\ ret.val = Bottom(input)

\* the deepest input explored, a mapping at its bottom, came back as that mapping
C16_Witness ==
    /\ Normalized
    /\ Depth(input) = MaxDepth
    /\ Bottom(input) = DictA
    /\ ret.val = DictA

-----------------------------------------------------------------------------
(* The order of the walk *)

\* what the relationship behind stub s has to give: the pair of a literal
\* value element, the pair of the element the decoder returns for an
\* OperatorExpression, None when there is nothing to decode
DecodedBy(s) ==
    LET rel == Elt(PyGet(s, "@id"))
        ve == ValueElementOf(rel)
        d == getValueFromOperatorExpressionUnit(ve)
    IN  IF ~StrIs(PyGet(rel, "@type"), "FeatureValue") THEN None
        ELSE IF ~IsDict(ve) \/ ~IsStr(Get(ve, "@type")) THEN None
        ELSE IF Get(ve, "@type").s \in LiteralTypes
             THEN ValuePair(Get(ve, "@id"), Get(ve, "value"))
        ELSE IF Get(ve, "@type").s = "OperatorExpression" /\ ~d.exc /\ IsDict(d.val)
             THEN ValuePair(Get(d.val, "@id"), Get(d.val, "value"))
        ELSE None

\* the first decoded value in the order of the stubs, None when there is none
RECURSIVE FirstDecoded(_)
FirstDecoded(stubs) ==
    IF stubs = <<>> THEN None
    ELSE IF ~IsNone(DecodedBy(Head(stubs))) THEN DecodedBy(Head(stubs))
    ELSE FirstDecoded(Tail(stubs))

\* C13: the resolver returns the decoded value of the first FeatureValue
\* relationship, in the order of ownedRelationship, that yields a decodable
\* value, skipping the ones that yield none; it returns None only when no
\* relationship yields one.
C13_FirstDecodableWins ==
    (Resolved /\ IsDict(Elt(input))) =>
        ret.val = FirstDecoded(RelStubs(Elt(input)))

-----------------------------------------------------------------------------
(* Relationships that cannot be fetched *)

\* the fetch of the relationship behind stub s returned None
Unfetched(s) == IsNone(Raw(PyGet(s, "@id")))

\* the feature walk: the first stubs are relationships whose fetch returned
\* None, the next one yields a value, and that value is returned
FeatureWalkSkipsUnfetched ==
    LET stubs == RelStubs(Elt(input))
    IN  \A j \in 2..Len(stubs) :
           (/\ \A h \in 1..(j - 1) : Unfetched(stubs[h])
            /\ ~IsNone(DecodedBy(stubs[j])))
           => ret.val = DecodedBy(stubs[j])

\* the decoder walk: the feature's only FeatureValue points to an
\* OperatorExpression whose first memberships cannot be fetched or are not
\* named x, at least one of them unfetched, the next one is the membership x,
\* and its operand is returned
DecoderWalkSkipsUnfetched ==
    LET stubs == RelStubs(Elt(input))
        at == FeatureValueAt(stubs)
    IN  \A i \in at :
           LET oe == ValueElementOf(Elt(PyGet(stubs[i], "@id")))
               ms == IF IsDict(oe) THEN RelStubs(oe) ELSE <<>>
           IN  \A j \in 2..Len(ms) :
                  LET operand == OperandOf(Raw(PyGet(ms[j], "@id")))
                  IN  (/\ Cardinality(at) = 1
                       /\ StrIs(Get(oe, "@type"), "OperatorExpression")
                       /\ IsParamX(Raw(PyGet(ms[j], "@id")))
                       /\ \A h \in 1..(j - 1) :
                             \/ Unfetched(ms[h])
                             \/ /\ IsDict(Raw(PyGet(ms[h], "@id")))
                                /\ ~IsParamX(Raw(PyGet(ms[h], "@id")))
                       /\ \E h \in 1..(j - 1) : Unfetched(ms[h])
                       /\ IsDict(operand))
                      => ret.val = ValuePair(Get(operand, "@id"),
                                             Get(operand, "value"))

\* C14: in the feature walk and in the decoder's walk over the operator
\* expression's relationships, a relationship whose fetch returned None is
\* skipped, and a later matching relationship (a FeatureValue, a
\* ParameterMembership named x) is still found.
C14_UnfetchedRelationshipSkipped ==
    (Resolved /\ IsDict(Elt(input))) =>
        /\ FeatureWalkSkipsUnfetched
        /\ DecoderWalkSkipsUnfetched

-----------------------------------------------------------------------------
(* The number of fetches of one resolution *)

Max(S) == CHOOSE x \in S : \A y \in S : y <= x

\* |feature.ownedRelationship| of the feature asked for
FeatureRelCount ==
    IF IsDict(Elt(input)) THEN Len(RelStubs(Elt(input))) ELSE 0

\* |opExpr.ownedRelationship| of the operator expressions that are value
\* elements of the feature's FeatureValue relationships, the largest of them
OpExprRelCount ==
    LET stubs == IF IsDict(Elt(input)) THEN RelStubs(Elt(input)) ELSE <<>>
        oes == {ValueElementOf(Elt(PyGet(stubs[i], "@id"))) :
                    i \in FeatureValueAt(stubs)}
    IN  Max({0} \cup {Len(RelStubs(oe)) :
                        oe \in {e \in oes : StrIs(PyGet(e, "@type"),
                                                   "OperatorExpression")}})

\* the store refers back: the operand of the parameter x is the operator
\* expression itself or the feature that owns it
Cyclic ==
    /\ IsDict(Raw(Str("pfv1")))
    /\ Get(Get(Raw(Str("pfv1")), "memberElement"), "@id") \in {Str("oe1"), Str("f1")}

\* C15: a resolution ends after at most
\* 1 + 2 * |feature.ownedRelationship| + |opExpr.ownedRelationship| + 3
\* fetches, all of them GETs, whatever the store holds, cyclic stores included.
C15_BoundedFetches ==
    Resolved =>
        /\ Len(ret.log) <= 1 + 2 * FeatureRelCount + OpExprRelCount + 3
        /\ \A i \in 1..Len(ret.log) : ret.log[i].method = "GET"

\* the parameter's value points back to f1; the resolution of f1 used every
\* fetch the bound allows and returned f1 itself as the value element
C15_Witness ==
    /\ Resolved /\ input = Str("f1")
    /\ Cyclic
    /\ IsPair(ret.val) /\ ret.val.f["value_id"] = Str("f1")
    /\ FeatureRelCount = MaxRels
    /\ Len(ret.log) = 1 + 2 * FeatureRelCount + OpExprRelCount + 3

-----------------------------------------------------------------------------
(* Requests with a required identifier missing *)

\* the identifiers each operation reads under "# Required inputs"
RequiredIdentifiers(operation) ==
    CASE operation = "getDomainFeatures" -> {"server_url", "project_id", "commit_id"}
      [] operation = "queryFeatureValue" ->
             {"server_url", "project_id", "commit_id", "element_id"}
      [] operation = "writeFeatureValue" ->
             {"server_url", "project_id", "commit_id", "element_id"}
      [] operation = "api_commits" -> {"server_url", "project_id"}
      [] OTHER -> {}

Answered == pc = "done" /\ op \in {"getDomainFeatures", "queryFeatureValue",
                                   "writeFeatureValue", "api_commits"}

MissingIdentifier ==
    Answered /\ \E key \in RequiredIdentifiers(op) : key \notin DOMAIN input.f

\* the caller got an error and nothing was sent to the model server
ErrorBeforeAnyRequest == ret.val.status = 500 /\ ret.log = <<>>

\* C11: for each of the four caller-facing operations, a request with a
\* required identifier missing is answered with an error, and no GET or POST
\* is sent to the model server before that error.
C11_MissingIdentifierNoRequest == MissingIdentifier => ErrorBeforeAnyRequest

\* the same for the two operations that test their identifiers first
C11_ValidatingOperations ==
    (MissingIdentifier /\ op \in {"getDomainFeatures", "api_commits"})
        => ErrorBeforeAnyRequest

-----------------------------------------------------------------------------
(* The string queryFeatureValue returns *)

\* the request was complete, and the value element and its owner were fetched
QueriedElement == Raw(Get(input, "element_id"))
QueriedOwner == Raw(PyGet(PyGet(QueriedElement, "owner"), "@id"))
Queried ==
    /\ pc = "done" /\ op = "queryFeatureValue"
    /\ RequiredIdentifiers(op) \subseteq DOMAIN input.f
    /\ IsDict(QueriedElement) /\ IsStr(PyGet(QueriedElement, "@type"))
    /\ IsDict(QueriedOwner)

\* the literal the decoder finds for the operator expression queried
DecodedLiteral == getValueFromOperatorExpressionUnit(QueriedElement).val
DecodesToLiteral ==
    /\ StrIs(PyGet(QueriedElement, "@type"), "OperatorExpression")
    /\ ~getValueFromOperatorExpressionUnit(QueriedElement).exc
    /\ IsDict(DecodedLiteral) /\ IsStr(PyGet(DecodedLiteral, "@type"))
    /\ StartsWithLiteral(Get(DecodedLiteral, "@type").s)

OwnerName == GetOr(QueriedOwner, "name", Str("Unknown Owner"))

\* a Literal queried: "<owner name>=<its value field>"
LiteralQueryReturnsValue ==
    (Queried /\ StartsWithLiteral(Get(QueriedElement, "@type").s))
        => ret.val = Reply(StatusOK,
                           NameValue(OwnerName,
                                     GetOr(QueriedElement, "value", Str(""))))

\* an OperatorExpression queried: "<owner name>=<value field of the literal>"
OperatorExpressionQueryReturnsValue ==
    (Queried /\ DecodesToLiteral)
        => ret.val = Reply(StatusOK,
                           NameValue(OwnerName, Get(DecodedLiteral, "value")))

\* C12: queryFeatureValue returns "<owner name>=<value>" with the resolved
\* scalar as value: the element's own value field when its type starts with
\* Literal, and the value field of the literal the decoder returns when its
\* type is OperatorExpression, never the decoded element itself.
C12_NameEqualsValue ==
    LiteralQueryReturnsValue /\ OperatorExpressionQueryReturnsValue

====
